---- MODULE Spec2Model ----
(***************************************************************************)
(* Model of cmd_line_bot/ends/discord_frontend.py: the connection manager  *)
(* (DiscordConfig), the inbound adapter (DiscordInputFrontEnd) and the     *)
(* outbound adapter (DiscordOutputFrontEnd).                               *)
(*                                                                         *)
(* Python strings are modelled run-length encoded: a string is a sequence  *)
(* of runs <<c, n>> (character c repeated n >= 1 times) in which adjacent  *)
(* runs carry different characters, so that equal strings are equal        *)
(* values and a 2000-character line is one run.                            *)
(***************************************************************************)
EXTENDS Integers, Sequences, FiniteSets, TLC

VARIABLES
    client_state,    \* the discord client: offline, authenticated, guilds, ready
    login_threads,   \* number of worker threads started on client.run
    _trying_login,   \* DiscordConfig._trying_login
    data,            \* CLBData: [token, servername]
    server,          \* DiscordConfig.server (a server name, or None)
    initial_msg,     \* DiscordOutputFrontEnd.initial_msg
    subscribed,      \* whether DiscordInputFrontEnd.run registered on_message
    pc,              \* position of each calling thread
    req,             \* arguments of each calling thread's current call
    coro,            \* state of the coroutine each call put on the event loop
    dest,            \* the channel or user the coroutine resolved, or None
    todo,            \* units a coroutine still has to hand to the client
    out,             \* units the current call of each thread handed to the client
    completed,       \* how many of them the client has completed
    calls,           \* number of calls started so far
    n_separators,    \* how many times the session separator was handed to the client
    first_unit,      \* first unit the output adapter ever handed to the client
    first_chan_unit, \* first unit a channel send (_send_msg) ever handed to the client
    handler,         \* state of the on_message coroutine of the current raw message
    msg,             \* the raw message being handled
    emitted,         \* command lines passed to the callback for the current raw message
    acks,            \* replies sent by reply_to_msg for the current raw message
    n_msgs,          \* number of raw messages received so far
    text,            \* argument of split_text
    result,          \* value returned by split_text, <<>> before the call
    ret,             \* the last direct call of a DiscordConfig method and what it returned
    n_queries        \* number of such calls so far

client_vars == <<client_state, login_threads, _trying_login>>
config_vars == <<data, server>>
call_vars == <<pc, req, coro, dest, todo, out, completed, calls>>
history_vars == <<n_separators, first_unit, first_chan_unit>>
input_vars == <<subscribed, handler, msg, emitted, acks, n_msgs>>
split_vars == <<text, result>>
query_vars == <<ret, n_queries>>

vars == <<client_vars, config_vars, initial_msg, call_vars, history_vars,
          input_vars, split_vars, query_vars>>

----------------------------------------------------------------------------
(* Bounds of the model *)

\* largest number of lines of a text given to split_text
MaxLines == 3
\* number of send/run calls made over one behaviour
MaxCalls == 2
\* number of raw messages received over one behaviour
MaxMsgs == 2
\* number of direct calls of set_server_named / get_channel_named /
\* get_user_named over one behaviour
MaxQueries == 3

----------------------------------------------------------------------------
(* Strings *)

NL == "\n"
\* characters of the model's texts: one non-whitespace, two whitespace
Whitespace == {" ", NL}

\* Python's None where a string is expected: no string has a run of length 0
NoneStr == << <<"None", 0>> >>
None == "None"

\* len(s)
RECURSIVE StrLen(_)
StrLen(s) == IF s = <<>> THEN 0 ELSE Head(s)[2] + StrLen(Tail(s))

\* a + b
Cat(a, b) ==
    IF a = <<>> THEN b
    ELSE IF b = <<>> THEN a
    ELSE IF a[Len(a)][1] = b[1][1]
         THEN SubSeq(a, 1, Len(a) - 1)
                \o << <<b[1][1], a[Len(a)][2] + b[1][2]>> >>
                \o Tail(b)
         ELSE a \o b

\* the string of a sequence of characters
RECURSIVE Lit(_)
Lit(cs) == IF cs = <<>> THEN <<>> ELSE Cat(<< <<Head(cs), 1>> >>, Lit(Tail(cs)))

\* the concatenation of a list of strings
RECURSIVE Concat(_)
Concat(ss) == IF ss = <<>> THEN <<>> ELSE Cat(Head(ss), Concat(Tail(ss)))

\* s.split("\n"): the pieces between newlines, k newlines giving k + 1 pieces
RECURSIVE SplitFrom(_, _, _)
SplitFrom(rest, cur, acc) ==
    IF rest = <<>> THEN Append(acc, cur)
    ELSE LET r == Head(rest) IN
         IF r[1] = NL
         THEN SplitFrom(Tail(rest), <<>>,
                        Append(acc, cur) \o [i \in 1..(r[2] - 1) |-> <<>>])
         ELSE SplitFrom(Tail(rest), Append(cur, r), acc)

split_newline(s) == SplitFrom(s, <<>>, <<>>)

\* len(s.split()) == 0: s holds no non-whitespace character
IsBlank(s) == \A i \in 1..Len(s) : s[i][1] \in Whitespace

----------------------------------------------------------------------------
(* DiscordOutputFrontEnd.split_text and fix_content *)

max_len == 2000

\* split_text whose else branch appends the line without its newline
SplitStep_NoNewline(res, line) ==
    IF StrLen(res[Len(res)]) + StrLen(line) < max_len
    THEN [res EXCEPT ![Len(res)] = Cat(Cat(@, line), << <<NL, 1>> >>)]
    ELSE Append(res, line)

\* one iteration of the loop of split_text
SplitStep(res, line) ==
    IF StrLen(res[Len(res)]) + StrLen(line) < max_len
    THEN [res EXCEPT ![Len(res)] = Cat(Cat(@, line), << <<NL, 1>> >>)]
    ELSE Append(res, Cat(line, << <<NL, 1>> >>))

RECURSIVE SplitLoop(_, _)
SplitLoop(res, lines) ==
    IF lines = <<>> THEN res
    ELSE SplitLoop(SplitStep(res, Head(lines)), Tail(lines))

split_text(t) == SplitLoop(<< <<>> >>, split_newline(t))

EMPTY_STRING == Lit(<<"<", "E", "M", "P", "T", "Y", " ",
                      "S", "T", "R", "I", "N", "G", ">">>)

\* fix_content that replaces only the empty string: len(content) == 0
fix_content_EmptyOnly(content) ==
    IF content = <<>> THEN EMPTY_STRING ELSE content

fix_content(content) == IF IsBlank(content) THEN EMPTY_STRING ELSE content

----------------------------------------------------------------------------
(* The chat platform as the client sees it, and the callers *)

\* servers visible to the authenticated client, by name
Servers == {"Alpha", "Beta"}
\* server.channels and server.members, by name
channels(s) == IF s = "Alpha" THEN {"general"} ELSE {"lobby"}
members(s) == IF s = "Alpha" THEN {"alice"} ELSE {"bob"}

\* the threads that call the adapters: two, so that calls overlap; MaxCalls
\* bounds how many calls they make between them
Threads == {"t1", "t2"}

\* client.is_logged_in: set once login has completed
is_logged_in == client_state # "offline"
\* the event wait_until_ready() waits for
is_ready == client_state = "ready"
\* client.servers: filled by the gateway's READY payload, before "ready" is signalled
client_servers == IF client_state \in {"guilds", "ready"} THEN Servers ELSE {}
\* client.loop runs once a worker thread runs client.run
loop_running == login_threads > 0

----------------------------------------------------------------------------
(* CLBData, the configuration collaborator *)

get_config(d, key) == d[key]
set_data(d, key, value) == [d EXCEPT ![key] = value]

----------------------------------------------------------------------------
(* DiscordConfig: each operator returns the value and the fields it leaves *)

\* get_token: raises CLBError when no token is configured
get_token(d) ==
    LET token == get_config(d, "token") IN
    [raised |-> token = None, value |-> token]

\* set_server that binds the server without storing its name
set_server_NoPersist(d, srv) ==
    [server |-> srv, data |-> d]

set_server(d, srv) ==
    [server |-> srv, data |-> set_data(d, "servername", srv)]

\* set_server_named that drops the bound server when no server has the name
set_server_named_ClearsOnMiss(srv, d, servername) ==
    IF servername \in client_servers
    THEN [value |-> TRUE] @@ set_server(d, servername)
    ELSE [value |-> FALSE, server |-> None, data |-> d]

set_server_named(srv, d, servername) ==
    IF servername \in client_servers
    THEN [value |-> TRUE] @@ set_server(d, servername)
    ELSE [value |-> FALSE, server |-> srv, data |-> d]

\* get_server that returns None where no server name is configured
get_server_NoneWhenUnconfigured(srv, d) ==
    IF srv = None
    THEN LET servername == get_config(d, "servername") IN
         IF servername = None
         THEN [raised |-> FALSE, value |-> None, server |-> srv, data |-> d]
         ELSE LET r == set_server_named(srv, d, servername) IN
              [raised |-> FALSE, value |-> r.server,
               server |-> r.server, data |-> r.data]
    ELSE [raised |-> FALSE, value |-> srv, server |-> srv, data |-> d]

get_server(srv, d) ==
    IF srv = None
    THEN LET servername == get_config(d, "servername") IN
         IF servername = None
         THEN [raised |-> TRUE, value |-> None, server |-> srv, data |-> d]
         ELSE LET r == set_server_named(srv, d, servername) IN
              [raised |-> FALSE, value |-> r.server,
               server |-> r.server, data |-> r.data]
    ELSE [raised |-> FALSE, value |-> srv, server |-> srv, data |-> d]

get_channel_named(srv, d, channelname) ==
    LET g == get_server(srv, d) IN
    [raised |-> g.raised, server |-> g.server, data |-> g.data,
     value |-> IF g.raised \/ g.value = None THEN None
               ELSE IF channelname \in channels(g.value) THEN channelname
               ELSE None]

get_user_named(srv, d, username) ==
    LET g == get_server(srv, d) IN
    [raised |-> g.raised, server |-> g.server, data |-> g.data,
     value |-> IF g.raised \/ g.value = None THEN None
               ELSE IF username \in members(g.value) THEN username
               ELSE None]

----------------------------------------------------------------------------
(* Inputs *)

\* texts given to send_msg / send_dm: a short one, a blank one, a line that
\* fills a segment followed by a blank line, a line of max_len characters, None
SendTexts ==
    { << <<"x", 1>> >>,
      << <<" ", 1>> >>,
      << <<"x", max_len - 1>>, <<NL, 1>>, <<" ", 1>> >>,
      << <<"x", max_len>> >>,
      NoneStr }

\* destination names: a channel and a member of server Alpha; each is unknown
\* as a destination of the other kind
DestNames == {"general", "alice"}

SendRequests ==
    [kind : {"send_msg", "send_dm"}, name : DestNames,
     text : SendTexts, filename : {None, "f.png"}]

RunRequest == [kind |-> "run", name |-> None, text |-> NoneStr, filename |-> None]
NoRequest == [kind |-> "none", name |-> None, text |-> NoneStr, filename |-> None]

\* lines (no newline inside) a text given to split_text is made of
LineLens == {1, max_len - 2, max_len - 1, max_len}
Lines ==
    {<<>>, << <<" ", 1>>, <<"x", 1>> >>}
      \cup { << <<c, n>> >> : c \in {"x", " "}, n \in LineLens }

\* "\n".join(ls)
RECURSIVE JoinLines(_)
JoinLines(ls) ==
    IF Len(ls) = 1 THEN ls[1]
    ELSE Cat(Cat(ls[1], << <<NL, 1>> >>), JoinLines(Tail(ls)))

Texts == { JoinLines(ls) : ls \in UNION { [1..n -> Lines] : n \in 1..MaxLines } }

\* raw messages: from a channel of a server, or from a direct conversation
init_cmd == Lit(<<"!", "i", "n", "i", "t">>)
Messages ==
    [content : {init_cmd, << <<"x", 1>> >>}, author : {"alice"},
     origin : {"Channel"}, server : {"Alpha"}, channel : {"general"}]
    \cup [content : {init_cmd, << <<"x", 1>> >>}, author : {"bob"},
          origin : {"Channel"}, server : {"Beta"}, channel : {"lobby"}]
    \cup [content : {init_cmd, << <<"x", 1>> >>}, author : {"alice"},
          origin : {"PrivateChannel"}, server : {None}, channel : {None}]
\* names given to set_server_named, get_channel_named and get_user_named
ServerNames == Servers \cup {"Missing"}
LookupNames == {"general", "lobby", "alice", "bob"}
NoQuery == [op |-> "none", arg |-> None, value |-> None, raised |-> FALSE]

NoMessage == [content |-> <<>>, author |-> None, origin |-> None,
              server |-> None, channel |-> None]

----------------------------------------------------------------------------
(* Initial state: the objects as their constructors leave them *)

Constructed ==
    /\ client_state = "offline"
    /\ login_threads = 0
    /\ _trying_login = FALSE
    /\ server = None
    /\ initial_msg = TRUE
    /\ subscribed = FALSE
    /\ pc = [t \in Threads |-> "idle"]
    /\ req = [t \in Threads |-> NoRequest]
    /\ coro = [t \in Threads |-> "none"]
    /\ dest = [t \in Threads |-> None]
    /\ todo = [t \in Threads |-> <<>>]
    /\ out = [t \in Threads |-> <<>>]
    /\ completed = [t \in Threads |-> 0]
    /\ calls = 0
    /\ n_separators = 0
    /\ first_unit = "none"
    /\ first_chan_unit = "none"
    /\ handler = "idle"
    /\ msg = NoMessage
    /\ emitted = <<>>
    /\ acks = <<>>
    /\ n_msgs = 0
    /\ result = <<>>
    /\ ret = NoQuery
    /\ n_queries = 0

\* the configuration file holds a token or not, a server name or not
Init ==
    /\ Constructed
    /\ data \in [token : {None, "token"}, servername : {None, "Alpha"}]
    /\ text = <<>>

----------------------------------------------------------------------------
(* The calling threads: send_msg, send_dm, run, and run_client step by step *)

Call(t, r) ==
    /\ pc[t] = "idle"
    /\ calls < MaxCalls
    /\ pc' = [pc EXCEPT ![t] = "line91"]
    /\ req' = [req EXCEPT ![t] = r]
    /\ calls' = calls + 1
    /\ UNCHANGED <<coro, dest, todo, out, completed>>

\* send_msg up to its call of run_client
send_msg(t) ==
    /\ \E r \in SendRequests : r.kind = "send_msg" /\ Call(t, r)
    /\ UNCHANGED <<client_vars, config_vars, initial_msg, history_vars,
                   input_vars, split_vars, query_vars>>

\* send_dm up to its call of run_client
send_dm(t) ==
    /\ \E r \in SendRequests : r.kind = "send_dm" /\ Call(t, r)
    /\ UNCHANGED <<client_vars, config_vars, initial_msg, history_vars,
                   input_vars, split_vars, query_vars>>

\* DiscordInputFrontEnd.run: registers on_message, then calls run_client
run(t) ==
    /\ Call(t, RunRequest)
    /\ subscribed' = TRUE
    /\ UNCHANGED <<client_vars, config_vars, initial_msg, history_vars,
                   handler, msg, emitted, acks, n_msgs, split_vars, query_vars>>

\* run_client has returned: run is over; send_msg / send_dm hand their
\* coroutine to the loop and wait for its result
Returned(t) ==
    IF req[t].kind = "run"
    THEN pc' = [pc EXCEPT ![t] = "done"] /\ UNCHANGED coro
    ELSE /\ pc' = [pc EXCEPT ![t] = "result"]
         /\ coro' = [coro EXCEPT ![t] = "scheduled"]

\* line 91: if client.is_logged_in: return
run_client_91(t) ==
    /\ pc[t] = "line91"
    /\ IF is_logged_in
       THEN Returned(t)
       ELSE pc' = [pc EXCEPT ![t] = "line93"] /\ UNCHANGED coro
    /\ UNCHANGED <<client_vars, config_vars, initial_msg, req, dest, todo, out,
                   completed, calls, history_vars, input_vars, split_vars, query_vars>>

\* line 93: if self._trying_login
run_client_93(t) ==
    /\ pc[t] = "line93"
    /\ pc' = [pc EXCEPT ![t] = IF _trying_login THEN "line94" ELSE "line97"]
    /\ UNCHANGED <<client_vars, config_vars, initial_msg, req, coro, dest, todo,
                   out, completed, calls, history_vars, input_vars, split_vars, query_vars>>

\* lines 94-96: wait_until_ready() on the loop, then return
run_client_94(t) ==
    /\ pc[t] = "line94"
    /\ loop_running
    /\ is_ready
    /\ Returned(t)
    /\ UNCHANGED <<client_vars, config_vars, initial_msg, req, dest, todo, out,
                   completed, calls, history_vars, input_vars, split_vars, query_vars>>

\* lines 97-101: set the flag, read the token (which may raise), start the
\* worker thread on client.run
run_client_97(t) ==
    /\ pc[t] = "line97"
    /\ _trying_login' = TRUE
    /\ IF get_token(data).raised
       THEN /\ pc' = [pc EXCEPT ![t] = "failed"]
            /\ UNCHANGED login_threads
       ELSE /\ pc' = [pc EXCEPT ![t] = "line102"]
            /\ login_threads' = login_threads + 1
    /\ UNCHANGED <<client_state, config_vars, initial_msg, req, coro, dest, todo,
                   out, completed, calls, history_vars, input_vars, split_vars, query_vars>>

\* lines 102-105: wait_until_ready() on the loop, clear the flag, return
run_client_102(t) ==
    /\ pc[t] = "line102"
    /\ loop_running
    /\ is_ready
    /\ _trying_login' = FALSE
    /\ Returned(t)
    /\ UNCHANGED <<client_state, login_threads, config_vars, initial_msg, req,
                   dest, todo, out, completed, calls, history_vars, input_vars,
                   split_vars, query_vars>>

\* the call is over (returned or raised): the thread may call again
Return(t) ==
    /\ pc[t] \in {"done", "failed"}
    /\ pc' = [pc EXCEPT ![t] = "idle"]
    /\ req' = [req EXCEPT ![t] = NoRequest]
    /\ dest' = [dest EXCEPT ![t] = None]
    /\ todo' = [todo EXCEPT ![t] = <<>>]
    /\ out' = [out EXCEPT ![t] = <<>>]
    /\ completed' = [completed EXCEPT ![t] = 0]
    /\ UNCHANGED <<client_vars, config_vars, initial_msg, coro, calls,
                   history_vars, input_vars, split_vars, query_vars>>

----------------------------------------------------------------------------
(* The client, run by the worker thread: client.run(token) *)

\* login completes: is_logged_in becomes true
client_login ==
    /\ loop_running
    /\ client_state = "offline"
    /\ client_state' = "authenticated"
    /\ UNCHANGED <<login_threads, _trying_login, config_vars, initial_msg,
                   call_vars, history_vars, input_vars, split_vars, query_vars>>

\* the gateway's READY payload arrives: client.servers is filled
client_guilds ==
    /\ client_state = "authenticated"
    /\ client_state' = "guilds"
    /\ UNCHANGED <<login_threads, _trying_login, config_vars, initial_msg,
                   call_vars, history_vars, input_vars, split_vars, query_vars>>

\* the client signals ready: wait_until_ready() returns
client_ready ==
    /\ client_state = "guilds"
    /\ client_state' = "ready"
    /\ UNCHANGED <<login_threads, _trying_login, config_vars, initial_msg,
                   call_vars, history_vars, input_vars, split_vars, query_vars>>

----------------------------------------------------------------------------
(* DiscordOutputFrontEnd: what a send hands to the client *)

initial_text ==
    Cat(<< <<"-", 20>> >>,
        Cat(Lit(<<" ", "N", "e", "w", " ", "S", "e", "s", "s", "i", "o", "n",
                  " ", "S", "t", "a", "r", "t", " ">>),
            << <<"-", 20>> >>))

\* client.send_message(destination, content)
MessageUnit(destination, content) ==
    [op |-> "send_message", destination |-> destination,
     content |-> content, fp |-> None]

\* client.send_file(destination, fp, content)
FileUnit(destination, fp, content) ==
    [op |-> "send_file", destination |-> destination,
     content |-> content, fp |-> fp]

\* _send_message: one send_message per segment, each awaited in turn;
\* split_text(None) raises
_send_message(destination, content) ==
    IF content = NoneStr
    THEN [raised |-> TRUE, units |-> <<>>]
    ELSE LET splitted == split_text(content) IN
         [raised |-> FALSE,
          units |-> [i \in 1..Len(splitted) |->
                       MessageUnit(destination, fix_content(splitted[i]))]]

\* _send_file that sends the file, with the last segment, before the messages
_send_file_FileFirst(destination, fp, content) ==
    IF content = NoneStr
    THEN [raised |-> FALSE, units |-> <<FileUnit(destination, fp, NoneStr)>>]
    ELSE LET splitted_text == split_text(content)
             n == Len(splitted_text) IN
         [raised |-> FALSE,
          units |-> <<FileUnit(destination, fp, splitted_text[n])>>
                    \o [i \in 1..(n - 1) |->
                          MessageUnit(destination, fix_content(splitted_text[i]))]]

\* _send_file: the segments but the last as messages, the last with the file
_send_file(destination, fp, content) ==
    IF content = NoneStr
    THEN [raised |-> FALSE, units |-> <<FileUnit(destination, fp, NoneStr)>>]
    ELSE LET splitted_text == split_text(content)
             n == Len(splitted_text) IN
         [raised |-> FALSE,
          units |-> [i \in 1..n |->
                       IF i < n
                       THEN MessageUnit(destination, fix_content(splitted_text[i]))
                       ELSE FileUnit(destination, fp, splitted_text[n])]]

\* lines 227-229: _send_dm calls _send_file with the keyword "destinaion",
\* which _send_file does not take: the call raises TypeError
_send_dm_file(destination, fp, content) ==
    [raised |-> TRUE, units |-> <<>>]

\* the coroutine raised: the caller's .result() raises
Raise(t) ==
    /\ pc' = [pc EXCEPT ![t] = "failed"]
    /\ coro' = [coro EXCEPT ![t] = "none"]
    /\ UNCHANGED <<todo, out, history_vars>>

\* the coroutine returned: the caller's .result() returns
Finish(t) ==
    /\ pc' = [pc EXCEPT ![t] = "done"]
    /\ coro' = [coro EXCEPT ![t] = "none"]
    /\ UNCHANGED <<todo, out, history_vars>>

\* the coroutine hands unit u to the client and awaits its completion
Issue(t, u, rest, stage) ==
    LET what == IF u.content = initial_text THEN "separator" ELSE "content" IN
    /\ out' = [out EXCEPT ![t] = Append(@, u @@ [at_ready |-> is_ready])]
    /\ todo' = [todo EXCEPT ![t] = rest]
    /\ coro' = [coro EXCEPT ![t] = stage]
    /\ n_separators' = IF what = "separator" THEN n_separators + 1
                       ELSE n_separators
    /\ first_unit' = IF first_unit = "none" THEN what ELSE first_unit
    /\ first_chan_unit' = IF first_chan_unit = "none" /\ req[t].kind = "send_msg"
                          THEN what ELSE first_chan_unit
    /\ UNCHANGED pc

\* the content of a send: lines 207-214 and 222-229
SendContent(t, destination) ==
    LET r == req[t]
        plan == IF r.filename = None
                THEN _send_message(destination, r.text)
                ELSE IF r.kind = "send_msg"
                     THEN _send_file(destination, r.filename, r.text)
                     ELSE _send_dm_file(destination, r.filename, r.text) IN
    IF plan.raised
    THEN Raise(t)
    ELSE Issue(t, Head(plan.units), Tail(plan.units), "await_unit")

\* _send_msg that does not look at initial_msg: the content goes first
_send_msg_ContentFirst(t) ==
    /\ loop_running
    /\ coro[t] = "scheduled"
    /\ req[t].kind = "send_msg"
    /\ LET channel == get_channel_named(server, data, req[t].name) IN
       /\ server' = channel.server
       /\ data' = channel.data
       /\ dest' = [dest EXCEPT ![t] = channel.value]
       /\ IF channel.raised \/ channel.value = None
          THEN Raise(t)
          ELSE SendContent(t, channel.value)
    /\ UNCHANGED <<client_vars, initial_msg, req, completed, calls, input_vars,
                   split_vars, query_vars>>

\* _send_msg that clears initial_msg before it looks the channel up
_send_msg_ClearsFlag(t) ==
    /\ loop_running
    /\ coro[t] = "scheduled"
    /\ req[t].kind = "send_msg"
    /\ LET channel == get_channel_named(server, data, req[t].name) IN
       /\ server' = channel.server
       /\ data' = channel.data
       /\ dest' = [dest EXCEPT ![t] = channel.value]
       /\ IF channel.raised \/ channel.value = None
          THEN Raise(t) /\ initial_msg' = FALSE
          ELSE /\ UNCHANGED initial_msg
               /\ IF initial_msg
                  THEN Issue(t, MessageUnit(channel.value, initial_text), <<>>,
                             "await_separator")
                  ELSE SendContent(t, channel.value)
    /\ UNCHANGED <<client_vars, req, completed, calls, input_vars,
                   split_vars, query_vars>>

\* _send_msg from its start to its first await
_send_msg(t) ==
    /\ loop_running
    /\ coro[t] = "scheduled"
    /\ req[t].kind = "send_msg"
    /\ LET channel == get_channel_named(server, data, req[t].name) IN
       /\ server' = channel.server
       /\ data' = channel.data
       /\ dest' = [dest EXCEPT ![t] = channel.value]
       /\ IF channel.raised \/ channel.value = None
          THEN Raise(t)
          ELSE IF initial_msg
               THEN Issue(t, MessageUnit(channel.value, initial_text), <<>>,
                          "await_separator")
               ELSE SendContent(t, channel.value)
    /\ UNCHANGED <<client_vars, initial_msg, req, completed, calls, input_vars,
                   split_vars, query_vars>>

\* _send_dm from its start to its first await
_send_dm(t) ==
    /\ loop_running
    /\ coro[t] = "scheduled"
    /\ req[t].kind = "send_dm"
    /\ LET user == get_user_named(server, data, req[t].name) IN
       /\ server' = user.server
       /\ data' = user.data
       /\ dest' = [dest EXCEPT ![t] = user.value]
       /\ IF user.raised \/ user.value = None
          THEN Raise(t)
          ELSE SendContent(t, user.value)
    /\ UNCHANGED <<client_vars, initial_msg, req, completed, calls, input_vars,
                   split_vars, query_vars>>

\* lines 205-207: the separator's send_message completes; _send_msg clears
\* initial_msg and goes on to the content
separator_sent(t) ==
    /\ loop_running
    /\ coro[t] = "await_separator"
    /\ completed' = [completed EXCEPT ![t] = @ + 1]
    /\ initial_msg' = FALSE
    /\ SendContent(t, dest[t])
    /\ UNCHANGED <<client_vars, config_vars, req, dest, calls, input_vars,
                   split_vars, query_vars>>

\* a send_message / send_file of the content completes; the loop of
\* _send_message / _send_file goes on to the next unit, or the send is over
unit_sent(t) ==
    /\ loop_running
    /\ coro[t] = "await_unit"
    /\ completed' = [completed EXCEPT ![t] = @ + 1]
    /\ IF todo[t] = <<>>
       THEN Finish(t)
       ELSE Issue(t, Head(todo[t]), Tail(todo[t]), "await_unit")
    /\ UNCHANGED <<client_vars, config_vars, initial_msg, req, dest, calls,
                   input_vars, split_vars, query_vars>>

----------------------------------------------------------------------------
(* DiscordInputFrontEnd: on_message and init_client *)

\* lines 138-145: the command line of a raw message
cmdline(m) ==
    CASE m.origin = "Channel" ->
           [type |-> "CLBCmdLine_Msg", content |-> m.content,
            author |-> m.author, channelname |-> m.channel]
      [] m.origin = "PrivateChannel" ->
           [type |-> "CLBCmdLine_DM", content |-> m.content,
            author |-> m.author, channelname |-> None]

\* the acknowledgement of line 164: "init" and four kana, written in romaji
replied == Lit(<<"i", "n", "i", "t", "shi", "ma", "shi", "ta">>)

\* on_message whose init_client does not test msg.server
on_message_NoServerCheck(m) ==
    /\ loop_running
    /\ subscribed
    /\ client_state \in {"guilds", "ready"}
    /\ handler = "idle"
    /\ n_msgs < MaxMsgs
    /\ n_msgs' = n_msgs + 1
    /\ msg' = m
    /\ IF m.content = init_cmd
       THEN /\ server' = set_server(data, m.server).server
            /\ data' = set_server(data, m.server).data
            /\ acks' = Append(acks, MessageUnit(m.channel, replied))
            /\ handler' = "await_reply"
            /\ UNCHANGED emitted
       ELSE /\ emitted' = Append(emitted, cmdline(m))
            /\ handler' = "done"
            /\ UNCHANGED <<config_vars, acks>>
    /\ UNCHANGED <<client_vars, initial_msg, subscribed, call_vars, history_vars,
                   split_vars, query_vars>>

\* on_message from its start to its first await (init_client's reply), or
\* to its end: init_client raises outside a server
on_message(m) ==
    /\ loop_running
    /\ subscribed
    /\ client_state \in {"guilds", "ready"}
    /\ handler = "idle"
    /\ n_msgs < MaxMsgs
    /\ n_msgs' = n_msgs + 1
    /\ msg' = m
    /\ IF m.content = init_cmd
       THEN IF m.server = None
            THEN /\ handler' = "raised"
                 /\ UNCHANGED <<config_vars, emitted, acks>>
            ELSE /\ server' = set_server(data, m.server).server
                 /\ data' = set_server(data, m.server).data
                 /\ acks' = Append(acks, MessageUnit(m.channel, replied))
                 /\ handler' = "await_reply"
                 /\ UNCHANGED emitted
       ELSE /\ emitted' = Append(emitted, cmdline(m))
            /\ handler' = "done"
            /\ UNCHANGED <<config_vars, acks>>
    /\ UNCHANGED <<client_vars, initial_msg, subscribed, call_vars, history_vars,
                   split_vars, query_vars>>

\* on_message that returns after init_client, without the callback
reply_sent_NoCallback ==
    /\ loop_running
    /\ handler = "await_reply"
    /\ handler' = "done"
    /\ UNCHANGED <<client_vars, config_vars, initial_msg, subscribed, msg, acks,
                   emitted, n_msgs, call_vars, history_vars, split_vars, query_vars>>

\* reply_to_msg's send_message completes: on_message goes on to the callback
reply_sent ==
    /\ loop_running
    /\ handler = "await_reply"
    /\ emitted' = Append(emitted, cmdline(msg))
    /\ handler' = "done"
    /\ UNCHANGED <<client_vars, config_vars, initial_msg, subscribed, msg, acks,
                   n_msgs, call_vars, history_vars, split_vars, query_vars>>

\* the handler is over (returned or raised): the next raw message
next_message ==
    /\ handler \in {"done", "raised"}
    /\ handler' = "idle"
    /\ msg' = NoMessage
    /\ emitted' = <<>>
    /\ acks' = <<>>
    /\ UNCHANGED <<client_vars, config_vars, initial_msg, subscribed, n_msgs,
                   call_vars, history_vars, split_vars, query_vars>>

----------------------------------------------------------------------------
(* DiscordConfig's methods called directly *)

Str(b) == IF b THEN "True" ELSE "False"

\* config.set_server_named(servername)
resolve_server(servername) ==
    /\ n_queries < MaxQueries
    /\ LET r == set_server_named(server, data, servername) IN
         /\ server' = r.server
         /\ data' = r.data
         /\ ret' = [op |-> "set_server_named", arg |-> servername,
                    value |-> Str(r.value), raised |-> FALSE]
    /\ n_queries' = n_queries + 1
    /\ UNCHANGED <<client_vars, initial_msg, call_vars, history_vars,
                   input_vars, split_vars>>

\* config.get_channel_named(channelname)
lookup_channel(channelname) ==
    /\ n_queries < MaxQueries
    /\ LET r == get_channel_named(server, data, channelname) IN
         /\ server' = r.server
         /\ data' = r.data
         /\ ret' = [op |-> "get_channel_named", arg |-> channelname,
                    value |-> r.value, raised |-> r.raised]
    /\ n_queries' = n_queries + 1
    /\ UNCHANGED <<client_vars, initial_msg, call_vars, history_vars,
                   input_vars, split_vars>>

\* config.get_user_named(username)
lookup_user(username) ==
    /\ n_queries < MaxQueries
    /\ LET r == get_user_named(server, data, username) IN
         /\ server' = r.server
         /\ data' = r.data
         /\ ret' = [op |-> "get_user_named", arg |-> username,
                    value |-> r.value, raised |-> r.raised]
    /\ n_queries' = n_queries + 1
    /\ UNCHANGED <<client_vars, initial_msg, call_vars, history_vars,
                   input_vars, split_vars>>

----------------------------------------------------------------------------
(* split_text applied to a text *)

InitSplit ==
    /\ Constructed
    /\ data = [token |-> None, servername |-> None]
    /\ text \in Texts

SplitText ==
    /\ result = <<>>
    /\ result' = split_text(text)
    /\ UNCHANGED <<client_vars, config_vars, initial_msg, call_vars, history_vars,
                   input_vars, text, query_vars>>

----------------------------------------------------------------------------
(* Specifications *)

\* the outbound adapter and the connection manager
Next ==
    \/ \E t \in Threads :
         \/ send_msg(t) \/ send_dm(t)
         \/ run_client_91(t) \/ run_client_93(t) \/ run_client_94(t)
         \/ run_client_97(t) \/ run_client_102(t)
         \/ _send_msg(t) \/ _send_dm(t) \/ separator_sent(t) \/ unit_sent(t)
         \/ Return(t)
    \/ client_login \/ client_guilds \/ client_ready

Spec == Init /\ [][Next]_vars

\* the inbound adapter and the connection manager
NextInput ==
    \/ \E t \in Threads :
         \/ run(t)
         \/ run_client_91(t) \/ run_client_93(t) \/ run_client_94(t)
         \/ run_client_97(t) \/ run_client_102(t)
         \/ Return(t)
    \/ client_login \/ client_guilds \/ client_ready
    \/ \E m \in Messages : on_message(m)
    \/ reply_sent \/ next_message

SpecInput == Init /\ [][NextInput]_vars

\* the configuration accessor and the connection manager
InitLookup ==
    /\ Constructed
    /\ data \in [token : {None, "token"}, servername : {None, "Alpha", "Missing"}]
    /\ text = <<>>

NextLookup ==
    \/ \E t \in Threads :
         \/ run(t)
         \/ run_client_91(t) \/ run_client_93(t) \/ run_client_94(t)
         \/ run_client_97(t) \/ run_client_102(t)
         \/ Return(t)
    \/ client_login \/ client_guilds \/ client_ready
    \/ \E servername \in ServerNames : resolve_server(servername)
    \/ \E name \in LookupNames : lookup_channel(name) \/ lookup_user(name)

SpecLookup == InitLookup /\ [][NextLookup]_vars

\* split_text as a function of its argument
SpecSplit == InitSplit /\ [][SplitText]_vars

----------------------------------------------------------------------------
(* Properties *)

Awaiting(t) == coro[t] \in {"await_separator", "await_unit"}

\* the units of thread t's current call after its separator, if it sent one
ContentUnits(t) ==
    IF out[t] # <<>> /\ out[t][1].content = initial_text
    THEN Tail(out[t]) ELSE out[t]

\* the last piece of s.split("\n"): empty when s ends with a newline
LastPiece(s) == split_newline(s)[Len(split_newline(s))]

\* the lines the segments hold, in order: each segment's pieces but the
\* empty one after its final newline
RECURSIVE LinesOf(_)
LinesOf(segs) ==
    IF segs = <<>> THEN <<>>
    ELSE (IF Head(segs) = <<>> THEN <<>>
          ELSE SubSeq(split_newline(Head(segs)), 1,
                      Len(split_newline(Head(segs))) - 1))
         \o LinesOf(Tail(segs))

\* C1: at most one login attempt (one worker thread running the client's
\* login) is ever started, whatever the interleaving of the callers of
\* run_client.
C1_AtMostOneLogin == login_threads <= 1

\* C2: no send_message / send_file is invoked by send_msg or send_dm before
\* the client has signalled ready.
C2_SendOnlyWhenReady ==
    \A t \in Threads : \A i \in 1..Len(out[t]) : out[t][i].at_ready

\* C3: when every line of the text is shorter than max_len, every segment
\* split_text returns is shorter than max_len, newlines included.
C3_SegmentsUnderLimit ==
    (/\ result # <<>>
     /\ \A i \in 1..Len(split_newline(text)) :
          StrLen(split_newline(text)[i]) < max_len)
    => \A i \in 1..Len(result) : StrLen(result[i]) < max_len

\* C4: the segments split_text returns, concatenated in order, are the text
\* followed by one newline, and every line of the text lies wholly inside
\* one segment: each segment is empty or ends with a newline, and the lines
\* of the segments, in order, are the lines of the text.
C4_SplitLossless ==
    result # <<>> =>
        /\ Concat(result) = Cat(text, << <<NL, 1>> >>)
        /\ \A i \in 1..Len(result) : result[i] = <<>> \/ LastPiece(result[i]) = <<>>
        /\ LinesOf(result) = split_newline(text)

\* C4 witness: split_text returned several segments, one of them holding
\* several lines, for a text with a line of max_len characters or more.
C4_Witness ==
    /\ Len(result) >= 2
    /\ \E i \in 1..Len(result) : Len(split_newline(result[i])) >= 3
    /\ \E i \in 1..Len(split_newline(text)) :
         StrLen(split_newline(text)[i]) >= max_len

\* C5 as claimed: every unit of a send with a text carries the placeholder
\* when its segment is blank and the segment itself otherwise, the unit
\* that carries the file included.
C5_PlaceholderEveryUnit ==
    \A t \in Threads :
        req[t].text # NoneStr =>
            LET segs == split_text(req[t].text)
                units == ContentUnits(t) IN
            /\ Len(units) <= Len(segs)
            /\ \A i \in 1..Len(units) :
                 units[i].content =
                     IF IsBlank(segs[i]) THEN EMPTY_STRING ELSE segs[i]

\* C5 amended: every unit sent as a plain message carries the placeholder
\* when its segment is blank and the segment itself otherwise; the unit that
\* carries the file carries the last segment as it is, blank or not.
C5_PlaceholderPlainUnits ==
    \A t \in Threads :
        req[t].text # NoneStr =>
            LET segs == split_text(req[t].text)
                units == ContentUnits(t) IN
            /\ Len(units) <= Len(segs)
            /\ \A i \in 1..Len(units) :
                 units[i].content =
                     IF units[i].op = "send_message" /\ IsBlank(segs[i])
                     THEN EMPTY_STRING ELSE segs[i]

\* C5 witness: a finished send whose file unit carries a blank segment, and
\* a finished send one of whose messages carries the placeholder.
C5_Witness ==
    /\ \E t \in Threads :
         /\ pc[t] = "done"
         /\ \E i \in 1..Len(out[t]) :
              /\ out[t][i].op = "send_file"
              /\ out[t][i].content # NoneStr
              /\ IsBlank(out[t][i].content)
    /\ \E t \in Threads :
         /\ pc[t] = "done"
         /\ \E i \in 1..Len(out[t]) :
              out[t][i].op = "send_message" /\ out[t][i].content = EMPTY_STRING

\* C6: a send_msg or send_dm with a file whose destination resolved delivers
\* all its segments, and exactly one unit, the last, carries the file.
C6_FileOnLastUnit ==
    \A t \in Threads :
        (/\ pc[t] \in {"done", "failed"}
         /\ req[t].filename # None
         /\ dest[t] # None)
        => LET units == ContentUnits(t)
               n == IF req[t].text = NoneStr THEN 1
                    ELSE Len(split_text(req[t].text)) IN
           /\ pc[t] = "done"
           /\ Len(units) = n
           /\ \A i \in 1..n : (units[i].op = "send_file") <=> (i = n)
           /\ units[n].fp = req[t].filename

\* C7 as claimed: the first unit the output adapter ever delivers is the
\* session separator, whether its first send is send_msg or send_dm.
C7_FirstUnitIsSeparator == first_unit \in {"none", "separator"}

\* C7 amended: the first unit a send_msg ever delivers is the session
\* separator; a send_dm never delivers the separator.
C7_FirstChannelUnitIsSeparator ==
    /\ first_chan_unit \in {"none", "separator"}
    /\ \A t \in Threads :
         req[t].kind = "send_dm" =>
             \A i \in 1..Len(out[t]) : out[t][i].content # initial_text

\* C7 witness: the adapter's first send was a send_dm, which delivered
\* content first, and a later send_msg delivered the separator first.
C7_Witness ==
    /\ first_unit = "content"
    /\ first_chan_unit = "separator"
    /\ \E t \in Threads :
         /\ pc[t] = "done"
         /\ req[t].kind = "send_msg"
         /\ Len(out[t]) >= 2

\* C8: over the lifetime of the adapter the session separator is delivered
\* at most once.
C8_SeparatorAtMostOnce == n_separators <= 1

\* the units of a send follow its segments in order, and each is handed to
\* the client only after the one before it has completed
InSegmentOrder(t) ==
    /\ req[t].text # NoneStr =>
         LET segs == split_text(req[t].text)
             units == ContentUnits(t) IN
         /\ Len(units) <= Len(segs)
         /\ \A i \in 1..Len(units) :
              \/ units[i].content = segs[i]
              \/ IsBlank(segs[i]) /\ units[i].content = EMPTY_STRING
    /\ Len(out[t]) - completed[t] = IF Awaiting(t) THEN 1 ELSE 0

\* C9 as claimed: the segments of a send are delivered in order, each after
\* the one before it has completed, and no two deliveries are ever in
\* flight on the client at once.
C9_OneDeliveryInFlight ==
    /\ \A t \in Threads : InSegmentOrder(t)
    /\ Cardinality({t \in Threads : Awaiting(t)}) <= 1

\* C9 amended: the segments of a send are delivered in order, each after
\* the one before it has completed; deliveries of sends made concurrently
\* by different callers may be in flight at once.
C9_SegmentsInOrder == \A t \in Threads : InSegmentOrder(t)

\* C9 witness: two sends have a delivery in flight at once, one of them its
\* second segment.
C9_Witness ==
    \E t1, t2 \in Threads :
        /\ t1 # t2
        /\ Awaiting(t1)
        /\ Awaiting(t2)
        /\ Len(ContentUnits(t1)) >= 2

\* C10 as claimed: every raw message, the initialization command or not,
\* has exactly one command line emitted to the callback.
C10_OneCmdLinePerMessage ==
    handler \in {"done", "raised"} => Len(emitted) = 1

\* C10 amended: a raw message whose handling returns has exactly one
\* command line emitted, a channel-message one (content, author, channel
\* name) from a channel and a direct-message one (content, author) from a
\* direct conversation; the handling raises, and emits nothing, exactly for
\* the initialization command received in a direct conversation.
C10_OneCmdLineUnlessRaised ==
    /\ Len(emitted) <= 1
    /\ handler = "done" =>
         emitted = << IF msg.origin = "Channel"
                      THEN [type |-> "CLBCmdLine_Msg", content |-> msg.content,
                            author |-> msg.author, channelname |-> msg.channel]
                      ELSE [type |-> "CLBCmdLine_DM", content |-> msg.content,
                            author |-> msg.author, channelname |-> None] >>
    /\ handler = "raised" =>
         /\ msg.content = init_cmd
         /\ msg.origin = "PrivateChannel"
         /\ emitted = <<>>
    /\ handler \in {"idle", "await_reply"} => emitted = <<>>
    /\ (msg.content = init_cmd /\ msg.origin = "PrivateChannel")
         => handler = "raised"

\* C10 witness: an initialization command from a channel was handled and
\* emitted as a channel-message command line.
C10_Witness ==
    /\ handler = "done"
    /\ msg.content = init_cmd
    /\ msg.origin = "Channel"
    /\ Len(emitted) = 1
    /\ emitted[1].type = "CLBCmdLine_Msg"

\* C11: an initialization command from a server channel is processed both
\* ways: the originating server becomes the active server and its name is
\* stored, one acknowledgement goes to the originating channel, and only
\* after it the message is emitted once as a channel-message command line.
C11_InitInChannelBothWays ==
    (msg.content = init_cmd /\ msg.origin = "Channel") =>
        /\ handler \in {"await_reply", "done"}
        /\ server = msg.server
        /\ data.servername = msg.server
        /\ acks = << [op |-> "send_message", destination |-> msg.channel,
                      content |-> replied, fp |-> None] >>
        /\ handler = "await_reply" => emitted = <<>>
        /\ handler = "done" =>
             emitted = << [type |-> "CLBCmdLine_Msg", content |-> init_cmd,
                           author |-> msg.author,
                           channelname |-> msg.channel] >>

\* C11 witness: the initialization command from channel lobby of server
\* Beta has been handled: Beta is bound and stored, acknowledged, emitted.
C11_Witness ==
    /\ handler = "done"
    /\ msg.content = init_cmd
    /\ msg.server = "Beta"
    /\ server = "Beta"
    /\ data.servername = "Beta"
    /\ Len(acks) = 1
    /\ Len(emitted) = 1

\* C12: an initialization command received in a direct message fails: the
\* handler raises, the active server and the stored server name stay as
\* they were, no acknowledgement is sent and nothing is emitted.
C12_InitInDirectMessageFails ==
    [][ (/\ handler = "idle"
         /\ handler' # "idle"
         /\ msg'.content = init_cmd
         /\ msg'.origin = "PrivateChannel")
        => (/\ handler' = "raised"
            /\ server' = server
            /\ data' = data
            /\ acks' = <<>>
            /\ emitted' = <<>>) ]_vars

\* C12 witness: an initialization command in a direct message has raised
\* while server Beta, bound by an earlier initialization, is still bound
\* and stored.
C12_Witness ==
    /\ handler = "raised"
    /\ msg.content = init_cmd
    /\ msg.origin = "PrivateChannel"
    /\ server = "Beta"
    /\ data.servername = "Beta"
    /\ acks = <<>>

\* a step that is one direct call of a DiscordConfig method
Query(op) == n_queries' = n_queries + 1 /\ ret'.op = op
\* the names a lookup searches in server s
names(op, s) == IF op = "get_channel_named" THEN channels(s) ELSE members(s)
Lookups == {"get_channel_named", "get_user_named"}

\* C13: set_server_named with a name that matches a server the client can see
\* binds that server, stores its name and returns True, and the lookups that
\* follow search in that server; with a name that matches none it returns False
\* and leaves the bound server and the stored name as they were.
C13_ResolveBindsOrLeaves ==
    [][ /\ Query("set_server_named") =>
             IF ret'.arg \in client_servers
             THEN /\ ret'.value = "True"
                  /\ server' = ret'.arg
                  /\ data' = [token |-> data.token, servername |-> ret'.arg]
             ELSE /\ ret'.value = "False"
                  /\ server' = server
                  /\ data' = data
        /\ (\E op \in Lookups : Query(op)) /\ server # None =>
             /\ ~ret'.raised
             /\ server' = server
             /\ ret'.value = IF ret'.arg \in names(ret'.op, server)
                             THEN ret'.arg ELSE None ]_vars

\* a name that matches no server was given after server Beta had been bound by
\* name: Beta is still bound and stored
C13_Witness ==
    /\ ret = [op |-> "set_server_named", arg |-> "Missing",
              value |-> "False", raised |-> FALSE]
    /\ server = "Beta"
    /\ data.servername = "Beta"

\* C14 as stated: get_channel_named and get_user_named never raise, and return
\* None whenever no server is active or the active server has no channel /
\* member of that name.
C14_LookupNeverRaises ==
    [][ (\E op \in Lookups : Query(op)) =>
            /\ ~ret'.raised
            /\ (server' = None \/ ret'.arg \notin names(ret'.op, server')) =>
                   ret'.value = None ]_vars

\* C14: with no server bound and no server name stored, get_channel_named and
\* get_user_named raise and change nothing; otherwise they do not raise, the
\* active server is the bound one or else the visible server of the stored
\* name, and they return None whenever there is no active server or it has no
\* channel / member of that name.
C14_LookupNullOrNotConfigured ==
    [][ (\E op \in Lookups : Query(op)) =>
            IF server = None /\ data.servername = None
            THEN ret'.raised /\ ret'.value = None /\ server' = None /\ data' = data
            ELSE /\ ~ret'.raised
                 /\ server' = IF server # None THEN server
                              ELSE IF data.servername \in client_servers
                                   THEN data.servername ELSE None
                 /\ (server' = None \/ ret'.arg \notin names(ret'.op, server')) =>
                        ret'.value = None ]_vars

\* a lookup of a channel name with no server bound and a stored name no visible
\* server has: None is returned and still no server is bound
C14_Witness ==
    /\ ret = [op |-> "get_channel_named", arg |-> "general",
              value |-> None, raised |-> FALSE]
    /\ server = None
    /\ data.servername = "Missing"
    /\ is_ready

\* C15: while no token is configured, a call of run_client that has raised has
\* left no login marked as in progress, and no call of run_client is waiting
\* for a login (line 94) instead of raising.
C15_NoTokenEveryCallFails ==
    data.token = None =>
        \A t \in Threads :
            /\ pc[t] = "failed" => ~_trying_login
            /\ pc[t] # "line94"

\* C16: a call of run_client that found a login in progress and waits at line 94
\* is not left blocked once no call that started a login is under way any more
\* (none waits at line 102): its wait can then complete, the loop is running
\* and the client is ready.
C16_WaiterNotLeftBlocked ==
    \A t \in Threads :
        (pc[t] = "line94" /\ \A u \in Threads : pc[u] # "line102") =>
            (loop_running /\ is_ready)

\* the server a lookup searches: the bound one, or else the visible server of
\* the stored name
active_server ==
    IF server # None THEN server
    ELSE IF data.servername \in client_servers THEN data.servername ELSE None

\* the destination of thread t's send is not a channel / member of the active
\* server
Unresolved(t) ==
    \/ active_server = None
    \/ req[t].name \notin (IF req[t].kind = "send_msg"
                            THEN channels(active_server)
                            ELSE members(active_server))

\* C17: when the coroutine of a send starts and its destination name does not
\* resolve, the send fails with nothing delivered: no unit of it is handed to
\* the client, no separator is sent and initial_msg is unchanged; and a channel
\* send that hands over its first unit while initial_msg is set hands over the
\* separator.
C17_UnresolvedSendDeliversNothing ==
    [][ \A t \in Threads :
          /\ (coro[t] = "scheduled" /\ coro'[t] # "scheduled" /\ Unresolved(t)) =>
                /\ pc'[t] = "failed"
                /\ dest'[t] = None
                /\ out'[t] = <<>>
                /\ coro'[t] = "none"
                /\ initial_msg' = initial_msg
                /\ n_separators' = n_separators
          /\ (req[t].kind = "send_msg" /\ out[t] = <<>> /\ out'[t] # <<>>
                 /\ initial_msg) =>
                out'[t][1].content = initial_text ]_vars

\* a channel send to a name that is no channel of the bound server has failed
\* on the ready client: nothing was delivered and initial_msg is still set
C17_Witness ==
    \E t \in Threads :
        /\ pc[t] = "failed"
        /\ req[t].kind = "send_msg"
        /\ req[t].name = "alice"
        /\ server = "Alpha"
        /\ is_ready
        /\ out[t] = <<>>
        /\ n_separators = 0
        /\ initial_msg

====
